---- MODULE Spec2Model ----
(***************************************************************************)
(* scripts/memory-profiling/plot-metrics.py as a state machine.            *)
(*                                                                         *)
(* One process runs the script: the __main__ block checks the argument and *)
(* the existence of the file, then plot_metrics reads the CSV, derives     *)
(* time_minutes, draws four panels, saves <stem>.png in the working        *)
(* directory, prints the path and opens the viewer.  The file system       *)
(* outlives a run, so the script can be run again on what it left behind.  *)
(*                                                                         *)
(* Library calls are modelled by what they do to the script's state:       *)
(*   pd.read_csv     row-oriented table -> column-oriented frame, or raise *)
(*   Series / 60     true division; the quotient is kept as a reduced      *)
(*                   fraction <<num, den>> (float rounding is not modelled)*)
(*   Axes.plot(x, y) appends one series of (x[i], y[i]) points             *)
(*   Path(p).stem    final component up to its last dot (pathlib)          *)
(*   plt.savefig     writes the current figure to a path relative to the   *)
(*                   working directory, or raises (I/O error)              *)
(* An exception nobody catches ends the process with a traceback on stderr *)
(* and exit code 1.                                                        *)
(***************************************************************************)
EXTENDS Integers, Sequences, FiniteSets, TLC

VARIABLES
    fs,          \* file system: path -> content, for the paths that exist
    inp,         \* the path of the file the operator prepared (fixed)
    run,         \* number of the current invocation
    argv,        \* sys.argv of the current invocation
    pc,          \* position in the script
    csv_file,    \* __main__ / plot_metrics: csv_file
    df,          \* plot_metrics: df
    fig,         \* pyplot's current figure: axes -> series drawn so far
    output_file, \* plot_metrics: output_file
    stdout,      \* lines printed by the current invocation
    stderr,      \* unhandled exception reported by the interpreter
    exitCode,    \* the process's exit code, meaningful when pc = "done"
    trace,       \* external effects of the current invocation, in order
    fault,       \* whether the environment made a library call fail
    fs0,         \* the file system when the current invocation started
    prev         \* what the previous invocation did

vars == <<fs, inp, run, argv, pc, csv_file, df, fig, output_file, stdout,
          stderr, exitCode, trace, fault, fs0, prev>>

----------------------------------------------------------------------------
(* Bounds of the model                                                     *)

MaxRows == 2
MaxRuns == 2

----------------------------------------------------------------------------
(* Strings that the script takes apart are sequences of characters         *)

Script == "scripts/plot-metrics.py"

NameCsv     == <<"m", ".", "c", "s", "v">>
NamePng     == <<"m", ".", "p", "n", "g">>
NameBare    == <<"m">>
NameTwoDots == <<"m", ".", "t", ".", "c", "s", "v">>
NameHidden  == <<".", "c", "s", "v">>

Names == {NameCsv, NamePng, NameBare, NameTwoDots, NameHidden}

\* "." is the working directory (a path with no directory part)
Cwd  == "."
Dirs == {Cwd, "sub"}

MkPath(d, n) == [dir |-> d, name |-> n]
Paths == {MkPath(d, n) : d \in Dirs, n \in Names}

Sibling(p) == MkPath(IF p.dir = Cwd THEN "sub" ELSE Cwd, p.name)

----------------------------------------------------------------------------
(* pathlib: Path(csv_file).stem, and the output file's name (line 67)      *)

\* str.rfind('.') as a 1-based position, 0 when there is no dot
RFindDot(s) ==
    LET hits == {i \in 1..Len(s) : s[i] = "."}
    IN  IF hits = {} THEN 0 ELSE CHOOSE i \in hits : \A j \in hits : j <= i

\* PurePath.stem: the final component without its last suffix; a leading
\* or a trailing dot starts no suffix
Stem(name) ==
    LET i == RFindDot(name)
    IN  IF 1 < i /\ i < Len(name) THEN SubSeq(name, 1, i - 1) ELSE name

PngSuffix == <<".", "p", "n", "g">>

\* output_file = Path(csv_file).stem + '.png': a relative name, which
\* savefig resolves against the working directory
OutputFile(p) == Stem(p.name) \o PngSuffix

\* a variant that saves beside the input (Path.with_suffix)
OutputPathBesideInput(p) == MkPath(p.dir, OutputFile(p))

OutputPath(p) == MkPath(Cwd, OutputFile(p))

----------------------------------------------------------------------------
(* The CSV files the operator may have prepared                            *)

Required == <<"timestamp", "heap_alloc_mb", "heap_inuse_mb", "heap_sys_mb",
              "heap_objects", "goroutines", "total_alloc_mb", "num_gc">>

Derived == "time_minutes"

IndexOf(seq, x) == CHOOSE i \in 1..Len(seq) : seq[i] = x

Has(seq, x) == \E i \in 1..Len(seq) : seq[i] = x

Without(seq, k) == [i \in 1..(Len(seq) - 1) |-> IF i < k THEN seq[i] ELSE seq[i + 1]]

Reverse(seq) == [i \in 1..Len(seq) |-> seq[Len(seq) + 1 - i]]

\* timestamps in seconds; 90 is no whole number of minutes
TimeVals == {0, 90, 120}

RECURSIVE SeqsUpTo(_, _)
SeqsUpTo(S, n) ==
    IF n = 0 THEN {<<>>}
    ELSE LET shorter == SeqsUpTo(S, n - 1)
         IN  shorter \cup {Append(s, x) : s \in {t \in shorter : Len(t) = n - 1}, x \in S}

Timestamps == SeqsUpTo(TimeVals, MaxRows)

\* headers: the eight columns, in another order, with a column more, with
\* a column that already has the derived column's name, with one missing
FullHeaders == {Required, Reverse(Required), Append(Required, "note"),
                Append(Required, Derived)}
ShortHeaders == {Without(Required, k) : k \in 1..Len(Required)}

\* the cell of row i under column c: heap_alloc_mb is 10, 20, ...; every
\* column has its own values, so that taking one for another shows
CellOf(c, i, ts) ==
    IF c = "timestamp" THEN ts[i]
    ELSE IF Has(Required, c) THEN 10 * i + (IndexOf(Required, c) - 2)
    ELSE 7 * i

CsvFile(h, ts) ==
    [kind |-> "csv", header |-> h,
     rows |-> [i \in 1..Len(ts) |-> [j \in 1..Len(h) |-> CellOf(h[j], i, ts)]]]

Garbage   == [kind |-> "garbage"]
Directory == [kind |-> "dir"]

SampleTimes == <<0, 120>>

Contents ==
    {CsvFile(h, ts) : h \in FullHeaders, ts \in Timestamps}
    \cup {CsvFile(h, SampleTimes) : h \in ShortHeaders}
    \cup {Garbage, Directory}

----------------------------------------------------------------------------
(* pandas: read_csv, column lookup, Series / 60, column assignment         *)

\* a number of a frame is a reduced fraction <<numerator, denominator>>
Num(n) == <<n, 1>>

RECURSIVE Gcd(_, _)
Gcd(a, b) == IF b = 0 THEN a ELSE Gcd(b, a % b)

\* a variant that divides as // does
DivByFloor(x, k) == <<x[1] \div (x[2] * k), 1>>

\* x / k for a number x and an integer k > 0
DivBy(x, k) ==
    LET n == x[1]
        d == x[2] * k
        g == Gcd(IF n < 0 THEN -n ELSE n, d)
    IN  <<n \div g, d \div g>>

NoFrame == [cols |-> <<>>, data |-> [c \in {} |-> <<>>]]

\* pd.read_csv on a file that parses: the header row names the columns,
\* every later row gives each column one value, in file order
ParseCsv(file) ==
    [cols |-> file.header,
     data |-> [c \in {file.header[j] : j \in 1..Len(file.header)} |->
                 [i \in 1..Len(file.rows) |->
                     Num(file.rows[i][IndexOf(file.header, c)])]]]

\* pd.read_csv: the exception it raises, "" when it returns a frame
ReadCsvError(files, p) ==
    CASE p \notin DOMAIN files      -> "FileNotFoundError"
      [] files[p].kind = "csv"      -> ""
      [] files[p].kind = "dir"      -> "IsADirectoryError"
      [] files[p].kind = "garbage"  -> "ParserError"
      [] files[p].kind = "partial"  -> "EmptyDataError"
      [] OTHER                      -> "UnicodeDecodeError"

\* df[c] raises KeyError unless c is a column
HasColumn(frame, c) == c \in DOMAIN frame.data

\* df[c] = values: replaces the column c in place when the frame has one,
\* and appends it as the last column otherwise
SetColumn(frame, c, values) ==
    [cols |-> IF HasColumn(frame, c) THEN frame.cols ELSE Append(frame.cols, c),
     data |-> [k \in DOMAIN frame.data \cup {c} |->
                 IF k = c THEN values ELSE frame.data[k]]]

SecondsPerMinute == 60

\* df['timestamp'] / 60
TimeMinutes(frame) ==
    [i \in 1..Len(frame.data["timestamp"]) |->
        DivBy(frame.data["timestamp"][i], SecondsPerMinute)]

\* line 18: df['time_minutes'] = df['timestamp'] / 60
AddTimeMinutes(frame) == SetColumn(frame, Derived, TimeMinutes(frame))

----------------------------------------------------------------------------
(* matplotlib: the figure, Axes.plot, savefig                              *)

NoFigure == [a \in {} |-> <<>>]

\* plt.subplots(2, 2): four empty panels
Grid == {"ax1", "ax2", "ax3", "ax4"}
NewFigure == [a \in Grid |-> <<>>]

\* a variant that plots y against the row number (ax.plot(y))
PlotOnIndex(figure, ax, x, y, label, marker) ==
    [figure EXCEPT ![ax] =
        Append(@, [label |-> label, marker |-> marker,
                   pts |-> [i \in 1..Len(y) |-> <<Num(i - 1), y[i]>>]])]

\* ax.plot(x, y, label=..., marker=...): one more series on ax, a point
\* per position of x and y
PlotOn(figure, ax, x, y, label, marker) ==
    [figure EXCEPT ![ax] =
        Append(@, [label |-> label, marker |-> marker,
                   pts |-> [i \in 1..Len(x) |-> <<x[i], y[i]>>]])]

\* ax.twinx(): a second y axis on the same panel
TwinX(figure, ax) == [a \in DOMAIN figure \cup {ax} |->
                         IF a \in DOMAIN figure THEN figure[a] ELSE <<>>]

Call(ax, col, label, marker) ==
    [ax |-> ax, col |-> col, label |-> label, marker |-> marker]

\* the plot calls of lines 26-28, 37, 45, 53 and 55
Plot1Calls == <<Call("ax1", "heap_alloc_mb", "HeapAlloc", "o"),
                Call("ax1", "heap_inuse_mb", "HeapInuse", "s"),
                Call("ax1", "heap_sys_mb", "HeapSys", "^")>>
Plot2Calls == <<Call("ax2", "heap_objects", "", "o")>>
Plot3Calls == <<Call("ax3", "goroutines", "", "o")>>
Plot4LeftCalls  == <<Call("ax4", "total_alloc_mb", "Total Alloc MB", "o")>>
Plot4RightCalls == <<Call("ax4_twin", "num_gc", "GC Count", "s")>>

\* the calls in order, up to the first whose column lookup raises KeyError:
\* what has been drawn, and whether every call returned
RECURSIVE RunCalls(_, _, _)
RunCalls(figure, frame, calls) ==
    IF calls = <<>> THEN [ok |-> TRUE, fig |-> figure]
    ELSE LET c == Head(calls)
         IN  IF ~HasColumn(frame, Derived) \/ ~HasColumn(frame, c.col)
             THEN [ok |-> FALSE, fig |-> figure]
             ELSE RunCalls(PlotOn(figure, c.ax, frame.data[Derived],
                                  frame.data[c.col], c.label, c.marker),
                           frame, Tail(calls))

\* what savefig writes for a figure
Png(figure) == [kind |-> "png", fig |-> figure]

\* what an interrupted savefig may leave behind
Partial == [kind |-> "partial"]

WriteFile(files, p, content) == (p :> content) @@ files

Exists(files, p) == p \in DOMAIN files

----------------------------------------------------------------------------
(* The process                                                             *)

NoPath == MkPath("", <<>>)

Usage         == [msg |-> "Usage: python3 scripts/plot-metrics.py <csv_file>"]
NotFound(p)   == [msg |-> "Error: File not found", path |-> p]
SavedTo(name) == [msg |-> "Plot saved to", file |-> name]

\* the command lines tried: no argument, the prepared file, and the same
\* name in the other directory
ArgChoices(p) == {<<Script>>, <<Script, p>>, <<Script, Sibling(p)>>}

NoRun == [done |-> FALSE, ok |-> FALSE, argv |-> <<>>, out |-> <<>>,
          fs |-> [q \in {} |-> Garbage]]

\* a fresh interpreter: nothing loaded, nothing drawn, nothing printed
Fresh ==
    /\ pc = "main"
    /\ csv_file = NoPath
    /\ df = NoFrame
    /\ fig = NoFigure
    /\ output_file = <<>>
    /\ stdout = <<>>
    /\ stderr = <<>>
    /\ exitCode = 0
    /\ trace = <<>>
    /\ fault = FALSE

\* the same, as the state the next invocation starts in
Restart ==
    /\ pc' = "main"
    /\ csv_file' = NoPath
    /\ df' = NoFrame
    /\ fig' = NoFigure
    /\ output_file' = <<>>
    /\ stdout' = <<>>
    /\ stderr' = <<>>
    /\ exitCode' = 0
    /\ trace' = <<>>
    /\ fault' = FALSE

Init ==
    /\ inp \in Paths
    /\ \E content \in Contents : fs = (inp :> content)
    /\ fs0 = fs
    /\ run = 1
    /\ argv \in ArgChoices(inp)
    /\ prev = NoRun
    /\ Fresh

\* sys.exit(code), or the interpreter ending after the last statement
Exit(code) ==
    /\ pc' = "done"
    /\ exitCode' = code

\* a variant in which a blanket handler swallows the exception
RaiseSwallowed(exc) ==
    /\ stderr' = stderr
    /\ Exit(0)

\* an exception that nothing catches: traceback on stderr, exit code 1
Raise(exc) ==
    /\ stderr' = Append(stderr, exc)
    /\ Exit(1)

\* a variant that calls sys.exit() with no code
CheckArgsExitsZero ==
    /\ pc = "main"
    /\ IF Len(argv) < 2
       THEN /\ stdout' = Append(stdout, Usage)
            /\ Exit(0)
            /\ UNCHANGED csv_file
       ELSE /\ csv_file' = argv[2]
            /\ pc' = "exists"
            /\ UNCHANGED <<stdout, exitCode>>
    /\ UNCHANGED <<fs, inp, run, argv, df, fig, output_file, stderr, trace,
                   fault, fs0, prev>>

\* lines 75-79
CheckArgs ==
    /\ pc = "main"
    /\ IF Len(argv) < 2
       THEN /\ stdout' = Append(stdout, Usage)
            /\ Exit(1)
            /\ UNCHANGED csv_file
       ELSE /\ csv_file' = argv[2]
            /\ pc' = "exists"
            /\ UNCHANGED <<stdout, exitCode>>
    /\ UNCHANGED <<fs, inp, run, argv, df, fig, output_file, stderr, trace,
                   fault, fs0, prev>>

\* a variant that prints the error and goes on (no sys.exit)
CheckExistsNoExit ==
    /\ pc = "exists"
    /\ stdout' = IF ~Exists(fs, csv_file) THEN Append(stdout, NotFound(csv_file))
                 ELSE stdout
    /\ pc' = "read"
    /\ UNCHANGED <<fs, inp, run, argv, csv_file, df, fig, output_file, stderr,
                   exitCode, trace, fault, fs0, prev>>

\* lines 80-84
CheckExists ==
    /\ pc = "exists"
    /\ IF ~Exists(fs, csv_file)
       THEN /\ stdout' = Append(stdout, NotFound(csv_file))
            /\ Exit(1)
       ELSE /\ pc' = "read"
            /\ UNCHANGED <<stdout, exitCode>>
    /\ UNCHANGED <<fs, inp, run, argv, csv_file, df, fig, output_file, stderr,
                   trace, fault, fs0, prev>>

\* line 15
ReadCsv ==
    /\ pc = "read"
    /\ trace' = Append(trace, "read")
    /\ IF ReadCsvError(fs, csv_file) = ""
       THEN /\ df' = ParseCsv(fs[csv_file])
            /\ pc' = "derive"
            /\ UNCHANGED <<stderr, exitCode>>
       ELSE /\ Raise(ReadCsvError(fs, csv_file))
            /\ UNCHANGED df
    /\ UNCHANGED <<fs, inp, run, argv, csv_file, fig, output_file, stdout,
                   fault, fs0, prev>>

\* a frame as the rows of a file (DataFrame.to_csv)
UnparseCsv(frame) ==
    [kind |-> "csv", header |-> frame.cols,
     rows |-> IF frame.cols = <<>> THEN <<>>
              ELSE [i \in 1..Len(frame.data[frame.cols[1]]) |->
                      [j \in 1..Len(frame.cols) |-> frame.data[frame.cols[j]][i]]]]

\* a variant that writes the frame back to the input file
DerivePersisting ==
    /\ pc = "derive"
    /\ IF HasColumn(df, "timestamp")
       THEN /\ df' = AddTimeMinutes(df)
            /\ fs' = WriteFile(fs, csv_file, UnparseCsv(df'))
            /\ pc' = "subplots"
            /\ UNCHANGED <<stderr, exitCode>>
       ELSE /\ Raise("KeyError")
            /\ UNCHANGED <<df, fs>>
    /\ UNCHANGED <<inp, run, argv, csv_file, fig, output_file, stdout,
                   trace, fault, fs0, prev>>

\* line 18
Derive ==
    /\ pc = "derive"
    /\ IF HasColumn(df, "timestamp")
       THEN /\ df' = AddTimeMinutes(df)
            /\ pc' = "subplots"
            /\ UNCHANGED <<stderr, exitCode>>
       ELSE /\ Raise("KeyError")
            /\ UNCHANGED df
    /\ UNCHANGED <<fs, inp, run, argv, csv_file, fig, output_file, stdout,
                   trace, fault, fs0, prev>>

\* lines 21-22; opening a figure fails where no display can be had
Subplots ==
    /\ pc = "subplots"
    /\ \/ /\ fig' = NewFigure
          /\ pc' = "plot1"
          /\ UNCHANGED <<stderr, exitCode, fault>>
       \/ /\ fault' = TRUE
          /\ Raise("TclError")
          /\ UNCHANGED fig
    /\ UNCHANGED <<fs, inp, run, argv, csv_file, df, output_file, stdout,
                   trace, fs0, prev>>

\* a panel: its plot calls in order, then labels, title, legend and grid,
\* which change no series
Panel(here, calls, figure, event, next) ==
    /\ pc = here
    /\ LET r == RunCalls(figure, df, calls)
       IN  /\ fig' = r.fig
           /\ IF r.ok
              THEN /\ pc' = next
                   /\ trace' = Append(trace, event)
                   /\ UNCHANGED <<stderr, exitCode>>
              ELSE /\ Raise("KeyError")
                   /\ UNCHANGED trace
    /\ UNCHANGED <<fs, inp, run, argv, csv_file, df, output_file, stdout,
                   fault, fs0, prev>>

\* lines 24-33
Plot1 == Panel("plot1", Plot1Calls, fig, "panel1", "plot2")

\* lines 35-41
Plot2 == Panel("plot2", Plot2Calls, fig, "panel2", "plot3")

\* lines 43-49
Plot3 == Panel("plot3", Plot3Calls, fig, "panel3", "plot4")

\* line 53
Plot4 == Panel("plot4", Plot4LeftCalls, fig, "panel4", "plot4twin")

\* a variant that never calls savefig
Plot4TwinSkipsSave ==
    Panel("plot4twin", Plot4RightCalls, TwinX(fig, "ax4_twin"), "panel4twin", "print")

\* lines 54-62
Plot4Twin ==
    Panel("plot4twin", Plot4RightCalls, TwinX(fig, "ax4_twin"), "panel4twin", "save")

\* lines 64-68; savefig raises on an I/O error, and may then have created
\* the file already
Save ==
    /\ pc = "save"
    /\ output_file' = OutputFile(csv_file)
    /\ \/ /\ ~(Exists(fs, OutputPath(csv_file))
               /\ fs[OutputPath(csv_file)].kind = "dir")
          /\ fs' = WriteFile(fs, OutputPath(csv_file), Png(fig))
          /\ trace' = Append(trace, "write")
          /\ pc' = "print"
          /\ UNCHANGED <<stderr, exitCode, fault>>
       \/ /\ fault' = TRUE
          /\ Raise("OSError")
          /\ \/ fs' = fs
             \/ /\ ~(Exists(fs, OutputPath(csv_file))
                     /\ fs[OutputPath(csv_file)].kind = "dir")
                /\ fs' = WriteFile(fs, OutputPath(csv_file), Partial)
          /\ UNCHANGED trace
    /\ UNCHANGED <<inp, run, argv, csv_file, df, fig, stdout, fs0, prev>>

\* line 69
PrintSaved ==
    /\ pc = "print"
    /\ stdout' = Append(stdout, SavedTo(output_file))
    /\ trace' = Append(trace, "print")
    /\ pc' = "show"
    /\ UNCHANGED <<fs, inp, run, argv, csv_file, df, fig, output_file, stderr,
                   exitCode, fault, fs0, prev>>

\* line 72, after which the script ends; the viewer may fail to open
Show ==
    /\ pc = "show"
    /\ \/ /\ trace' = Append(trace, "show")
          /\ Exit(0)
          /\ UNCHANGED <<stderr, fault>>
       \/ /\ fault' = TRUE
          /\ Raise("TclError")
          /\ UNCHANGED trace
    /\ UNCHANGED <<fs, inp, run, argv, csv_file, df, fig, output_file, stdout,
                   fs0, prev>>

\* the operator runs the script again, in the same working directory
StartRun ==
    /\ pc = "done"
    /\ run < MaxRuns
    /\ run' = run + 1
    /\ argv' \in ArgChoices(inp)
    /\ fs0' = fs
    /\ prev' = [done |-> TRUE, ok |-> exitCode = 0 /\ ~fault, argv |-> argv,
                out |-> output_file, fs |-> fs]
    /\ Restart
    /\ UNCHANGED <<fs, inp>>

Next ==
    \/ CheckArgs
    \/ CheckExists
    \/ ReadCsv
    \/ Derive
    \/ Subplots
    \/ Plot1
    \/ Plot2
    \/ Plot3
    \/ Plot4
    \/ Plot4Twin
    \/ Save
    \/ PrintSaved
    \/ Show
    \/ StartRun

Spec == Init /\ [][Next]_vars

----------------------------------------------------------------------------
(* Properties                                                              *)

HasArg    == Len(argv) >= 2
Done      == pc = "done"
Succeeded == Done /\ exitCode = 0
Failed    == Done /\ exitCode # 0

\* the paths whose content differs from what the invocation found
Touched == {p \in DOMAIN fs \cup DOMAIN fs0 :
               p \notin DOMAIN fs \/ p \notin DOMAIN fs0 \/ fs[p] # fs0[p]}

\* positions inside plot_metrics
InPlotMetrics == {"read", "derive", "subplots", "plot1", "plot2", "plot3",
                  "plot4", "plot4twin", "save", "print", "show"}

\* a name with its extension replaced by .png: what follows the last dot
\* goes, when that dot is neither the first nor the last character;
\* a name without such a dot has no extension and only gains .png
ReplacedExtension(name) ==
    LET cuts == {k \in 2..(Len(name) - 1) :
                    /\ name[k] = "."
                    /\ \A j \in (k + 1)..Len(name) : name[j] # "."}
    IN  IF cuts = {} THEN name \o <<".", "p", "n", "g">>
        ELSE LET k == CHOOSE c \in cuts : TRUE
             IN  [i \in 1..(k + 3) |->
                    IF i < k THEN name[i] ELSE <<".", "p", "n", "g">>[i - k + 1]]

\* C1: after a successful run the working directory holds a PNG named after
\* the input's base name with its extension replaced by .png, the only
\* message printed names that file, and nothing else was written: not in
\* the input's directory either.  m.csv gives m.png.
C1_OutputNamedAfterInput ==
    Succeeded =>
        LET out == ReplacedExtension(argv[2].name)
        IN  /\ Exists(fs, MkPath(Cwd, out))
            /\ fs[MkPath(Cwd, out)].kind = "png"
            /\ stdout = <<SavedTo(out)>>
            /\ Touched \subseteq {MkPath(Cwd, out)}
            /\ argv[2].name = NameCsv => Exists(fs, MkPath(Cwd, NamePng))

\* a run on sub/m.t.csv has succeeded and left ./m.t.png
C1_Witness ==
    /\ Succeeded
    /\ argv[2] = MkPath("sub", NameTwoDots)
    /\ Exists(fs, MkPath(Cwd, <<"m", ".", "t", ".", "p", "n", "g">>))
    /\ ~Exists(fs, MkPath("sub", <<"m", ".", "t", ".", "p", "n", "g">>))

\* C3: a run without arguments ends with exit code 1 and the usage line,
\* and at no point of it has a file been read, a figure been drawn or a
\* file been written.
C3_NoArgumentUsage ==
    ~HasArg =>
        /\ pc \in {"main", "done"}
        /\ Done => exitCode = 1 /\ stdout = <<Usage>> /\ stderr = <<>>
        /\ trace = <<>>
        /\ df = NoFrame
        /\ fig = NoFigure
        /\ fs = fs0

\* a run without arguments has ended in a directory that holds an earlier
\* run's output
C3_Witness ==
    /\ ~HasArg
    /\ Done
    /\ prev.ok
    /\ \E p \in DOMAIN fs : fs[p].kind = "png"

\* C4: a run on a path that does not exist ends with exit code 1 and the
\* error line naming that path, without ever entering plot_metrics; and
\* whenever the process is inside plot_metrics, or has left a trace of it,
\* its argument is a path that existed when the run began.
C4_MissingFileRejected ==
    /\ (HasArg /\ ~Exists(fs0, argv[2])) =>
          /\ pc \in {"main", "exists", "done"}
          /\ Done => /\ exitCode = 1
                     /\ stdout = <<NotFound(argv[2])>>
                     /\ stderr = <<>>
          /\ trace = <<>>
          /\ df = NoFrame
          /\ fig = NoFigure
          /\ fs = fs0
    /\ (pc \in InPlotMetrics \/ trace # <<>> \/ df # NoFrame) =>
          /\ HasArg
          /\ csv_file = argv[2]
          /\ Exists(fs0, argv[2])

\* a run on a missing path has ended
C4_Witness ==
    /\ HasArg
    /\ ~Exists(fs0, argv[2])
    /\ Done
    /\ stdout = <<NotFound(argv[2])>>

\* the input file as the run found it, and what is wrong with it
InputExists == HasArg /\ Exists(fs0, argv[2])
InputFile   == fs0[argv[2]]
ValidInput  ==
    /\ InputExists
    /\ InputFile.kind = "csv"
    /\ \A k \in 1..Len(Required) : Has(InputFile.header, Required[k])
LoadFailure == InputExists /\ ~ValidInput

\* column c of a file, top to bottom
FileColumn(file, c) ==
    [i \in 1..Len(file.rows) |-> file.rows[i][IndexOf(file.header, c)]]

HeaderNames(file) == {file.header[j] : j \in 1..Len(file.header)}

\* the number v is t / k
IsQuotient(v, t, k) == v[2] > 0 /\ v[1] * k = t * v[2]

\* the frame is complete once line 18 has run
Loaded == pc \notin {"main", "exists", "read", "derive"} /\ df # NoFrame

\* the time_minutes column has a value per row, the row's timestamp / 60
TimeMinutesDerived ==
    /\ HasColumn(df, Derived)
    /\ Len(df.data[Derived]) = Len(InputFile.rows)
    /\ \A i \in 1..Len(InputFile.rows) :
          IsQuotient(df.data[Derived][i], FileColumn(InputFile, "timestamp")[i], 60)

\* the frame's column c is the file's column c, row by row
ColumnKept(c) ==
    /\ HasColumn(df, c)
    /\ df.data[c] = [i \in 1..Len(InputFile.rows) |-> Num(FileColumn(InputFile, c)[i])]

\* C5 as stated: for a valid CSV the loaded frame has the file's rows in
\* file order, every column of the file unchanged, and one column more,
\* time_minutes, with timestamp / 60 in every row.
C5_AsStated ==
    (ValidInput /\ Loaded) =>
        /\ df.cols = Append(InputFile.header, Derived)
        /\ \A c \in HeaderNames(InputFile) : ColumnKept(c)
        /\ TimeMinutesDerived

\* C5 amended: the same for a CSV that has no time_minutes column; when it
\* has one, no column is added and that column's values are replaced by
\* timestamp / 60, every other column unchanged.
C5_LoadAddsTimeMinutes ==
    (ValidInput /\ Loaded) =>
        /\ df.cols = IF Has(InputFile.header, Derived) THEN InputFile.header
                     ELSE Append(InputFile.header, Derived)
        /\ \A c \in HeaderNames(InputFile) \ {Derived} : ColumnKept(c)
        /\ TimeMinutesDerived

\* a file of two rows with timestamps 90 and 120 has been loaded: 1.5, 2.0
C5_Witness ==
    /\ ValidInput
    /\ Loaded
    /\ FileColumn(InputFile, "timestamp") = <<90, 120>>
    /\ df.data[Derived] = <<<<3, 2>>, <<2, 1>>>>

\* the series of each axis, by the column they show
PanelColumns ==
    [ax1 |-> <<"heap_alloc_mb", "heap_inuse_mb", "heap_sys_mb">>,
     ax2 |-> <<"heap_objects">>,
     ax3 |-> <<"goroutines">>,
     ax4 |-> <<"total_alloc_mb">>,
     ax4_twin |-> <<"num_gc">>]

AllDrawn == Has(trace, "panel4twin")

\* C8: once the panels are drawn, each axis holds exactly the series listed
\* for it, in order, and each series has one point per row of the file, in
\* row order: x the row's timestamp / 60, y the row's value of the series'
\* column.  Timestamps 0, 120 with heap_alloc_mb 10, 20 give the first
\* series of plot 1 the points (0, 10), (2, 20).
C8_SeriesFollowRows ==
    AllDrawn =>
        /\ DOMAIN fig = DOMAIN PanelColumns
        /\ \A ax \in DOMAIN PanelColumns :
              /\ Len(fig[ax]) = Len(PanelColumns[ax])
              /\ \A k \in 1..Len(PanelColumns[ax]) :
                    LET pts == fig[ax][k].pts
                    IN  /\ Len(pts) = Len(InputFile.rows)
                        /\ \A i \in 1..Len(InputFile.rows) :
                              /\ IsQuotient(pts[i][1],
                                            FileColumn(InputFile, "timestamp")[i], 60)
                              /\ pts[i][2] =
                                    Num(FileColumn(InputFile, PanelColumns[ax][k])[i])
        /\ (/\ FileColumn(InputFile, "timestamp") = <<0, 120>>
            /\ FileColumn(InputFile, "heap_alloc_mb") = <<10, 20>>)
           => fig["ax1"][1].pts = << <<Num(0), Num(10)>>, <<Num(2), Num(20)>> >>

\* the scenario's file has been drawn
C8_Witness ==
    /\ AllDrawn
    /\ InputFile.header = Required
    /\ FileColumn(InputFile, "timestamp") = <<0, 120>>
    /\ FileColumn(InputFile, "heap_alloc_mb") = <<10, 20>>
    /\ Len(fig["ax1"]) = 3
    /\ Len(fig["ax4_twin"]) = 1

IsPrefix(a, b) == Len(a) <= Len(b) /\ a = SubSeq(b, 1, Len(a))

Count(seq, x) == Cardinality({i \in 1..Len(seq) : seq[i] = x})

\* the effects of a successful run, in order
FullTrace == <<"read", "panel1", "panel2", "panel3", "panel4", "panel4twin",
               "write", "print", "show">>

\* C7: the effects of a run are always a prefix of read, the four panels,
\* write, print, show, so each happens at most once and none before
\* its predecessors; when the message is printed or the viewer
\* opened the PNG is already in the working directory; and a
\* run that ends with exit code 0 has done all of them and printed the
\* one message naming the output file.
C7_StepsInOrder ==
    /\ IsPrefix(trace, FullTrace)
    /\ (Has(trace, "print") \/ Has(trace, "show") \/ pc \in {"print", "show"}) =>
          /\ Has(trace, "write")
          /\ Exists(fs, MkPath(Cwd, output_file))
          /\ fs[MkPath(Cwd, output_file)] = Png(fig)
    /\ stdout # <<>> /\ stdout[1].msg = "Plot saved to" =>
          /\ Has(trace, "print")
          /\ stdout = <<SavedTo(output_file)>>
    /\ Succeeded =>
          /\ trace = FullTrace
          /\ stdout = <<SavedTo(output_file)>>
          /\ stderr = <<>>

\* a second run in the same directory has succeeded
C7_Witness ==
    /\ Succeeded
    /\ run = 2
    /\ trace = FullTrace

DataErrors == {"ParserError", "KeyError", "IsADirectoryError",
               "UnicodeDecodeError", "EmptyDataError"}

\* C9: a line other than "Plot saved to" is printed only when the argument
\* or the file is missing, and then the run ends with exit code 1 having
\* loaded nothing; a run on a file that is no CSV or lacks a required
\* column prints nothing at all, reads the file once, writes nothing, and
\* ends with one unhandled exception and an exit code other than 0.
C9_TwoDiagnosedFailures ==
    /\ (stdout # <<>> /\ stdout[1].msg # "Plot saved to") =>
          /\ ~HasArg \/ ~Exists(fs0, argv[2])
          /\ Len(stdout) = 1
          /\ Done
          /\ exitCode = 1
          /\ stderr = <<>>
          /\ trace = <<>>
          /\ df = NoFrame
    /\ (Done /\ (~HasArg \/ ~Exists(fs0, argv[2]))) =>
          /\ stdout = <<IF HasArg THEN NotFound(argv[2]) ELSE Usage>>
          /\ exitCode = 1
    /\ LoadFailure =>
          /\ stdout = <<>>
          /\ Count(trace, "read") <= 1
          /\ ~Has(trace, "write")
          /\ pc \notin {"save", "print", "show"}
          /\ Done =>
                /\ exitCode # 0
                /\ Len(stderr) = 1
                /\ trace # <<>>
                /\ ~fault => stderr[1] \in DataErrors

\* a file without total_alloc_mb has failed the run while panel 4 was drawn
C9_Witness ==
    /\ LoadFailure
    /\ Done
    /\ stderr = <<"KeyError">>
    /\ Has(trace, "panel3")
    /\ stdout = <<>>

\* C2 as stated: when a run has failed, no PNG is at <input-stem>.png in
\* the working directory.
C2_AsStated ==
    (Failed /\ HasArg) =>
        ~(/\ Exists(fs, OutputPath(argv[2]))
          /\ fs[OutputPath(argv[2])].kind = "png")

\* C2 amended: a run that fails before savefig is called (missing argument,
\* missing file, a file that does not load, an error while drawing) has
\* written nothing: every file is as the run found it, so <input-stem>.png
\* is there only if it was there before.  A run that fails in savefig
\* or in plt.show may leave the file.
C2_FailureBeforeSaveWritesNothing ==
    /\ (Failed /\ (~HasArg \/ ~InputExists \/ LoadFailure \/ ~AllDrawn)) =>
          output_file = <<>>
    /\ (Failed /\ output_file = <<>>) =>
          /\ fs = fs0
          /\ HasArg => (Exists(fs, OutputPath(argv[2]))
                           <=> Exists(fs0, OutputPath(argv[2])))

\* a file without heap_inuse_mb has failed the run in the first panel
C2_Witness ==
    /\ Failed
    /\ output_file = <<>>
    /\ stderr = <<"KeyError">>
    /\ fig # NoFigure
    /\ Len(fig["ax1"]) = 1
    /\ fs = fs0

C10_InputUntouched ==
    InputExists => (Exists(fs, argv[2]) /\ fs[argv[2]] = InputFile)

====
